---------------------------- MODULE Spec2Model ----------------------------
(***************************************************************************)
(* Model of the two fixed-capacity open-addressing maps of the crate:      *)
(*   RobinHashMap (src/src/robin_hood_hash_map.rs): Robin Hood hashing     *)
(*     with backward-shift deletion;                                       *)
(*   OpenHashMap  (src/src/basic_hash_map.rs): linear probing with         *)
(*     tombstones.                                                         *)
(* Every public method is one action.  The loops of the methods are        *)
(* RECURSIVE operators that follow the source statement by statement.      *)
(* An Option<T> is a sequence of length <= 1: None is << >>, Some(x) is    *)
(* <<x>>.                                                                  *)
(***************************************************************************)
EXTENDS Integers, Sequences, FiniteSets, TLC

\* ------------------------------------------------------------------ bounds
MaxCapacity == 4
MaxOpenCapacity == 3
NumKeys == 4
NumValues == 2

Keys == 1..NumKeys
Values == 1..NumValues
Capacities == 0..MaxCapacity
OpenCapacities == 0..MaxOpenCapacity

\* The u64 hashes a key can have.  Only hash % capacity is ever used, so the
\* hashes below the capacity give every assignment of home indexes.
HashValues(c) == 0..(IF c = 0 THEN 0 ELSE c - 1)

\* The maps treat keys only through their hash and ==, so the keys are named
\* in the order of their hashes: every assignment of home indexes is one of
\* these up to the names of the keys, and calls are made in every order.
HashFunctions(c) ==
    {h \in [Keys -> HashValues(c)] : \A a, b \in Keys : a <= b => h[a] <= h[b]}

VARIABLES
    capacity,     \* RobinHashMap.capacity
    array,        \* RobinHashMap.array : index -> Option<Bucket>
    max_psl,      \* RobinHashMap.max_psl
    hash,         \* hash_with_fxhash, as a function of the key
    status,       \* "ok", "hung" (a call that never returns), "panicked"
    call,         \* the last call made: [name, key, value]
    ret,          \* what the last insert returned: Option<Bucket>
    ret_value,    \* what the last get or delete returned: Option<V>
    ret_bool,     \* what the last contains returned
    steps,        \* slots examined by the last insert / buckets moved by the last delete
    pre_array,    \* array as it was when the last call was made
    pre_max_psl,  \* max_psl as it was when the last call was made
    deleted,      \* keys whose delete has returned and that no insert was called on since
    ocapacity,    \* OpenHashMap.capacity
    oarray,       \* OpenHashMap.array : index -> Slot
    ohash,        \* the DefaultHasher hash, as a function of the key
    ostatus,      \* "ok", "hung", "panicked"
    ocall,        \* the last call made on the OpenHashMap
    oret,         \* what the last insert returned: bool
    oret_slot,    \* what the last delete or find returned: Slot
    pre_oarray    \* oarray as it was when the last call was made

rvars == <<capacity, array, max_psl, hash, status, call, ret, ret_value, ret_bool, steps,
           pre_array, pre_max_psl, deleted>>
ovars == <<ocapacity, oarray, ohash, ostatus, ocall, oret, oret_slot, pre_oarray>>
vars == <<capacity, array, max_psl, hash, status, call, ret, ret_value, ret_bool, steps,
          pre_array, pre_max_psl, deleted,
          ocapacity, oarray, ohash, ostatus, ocall, oret, oret_slot, pre_oarray>>

\* ------------------------------------------------------------ Option<T>
None == << >>
Some(x) == <<x>>
Unwrap(o) == o[1]

Max(a, b) == IF a >= b THEN a ELSE b

\* ========================================================== RobinHashMap
hash_with_fxhash(k) == hash[k]

Bucket(k, v, p) == [key |-> k, value |-> v, probe_length |-> p]

\* RobinHashMap::new : capacity slots, all None, max_psl = 0.
New(c) == [array |-> [i \in 0..(c - 1) |-> None], max_psl |-> 0, capacity |-> c]

\* InsertEmpty that stores the bucket and does not return.
InsertEmptyNoReturn(arr, mpsl, index, incoming, n) ==
    [returned |-> FALSE,
     array |-> [arr EXCEPT ![index] = Some(incoming)],
     max_psl |-> Max(mpsl, incoming.probe_length),
     ret |-> None, steps |-> n + 1]

\* The None arm of insert: place the incoming bucket, raise max_psl, return None.
InsertEmpty(arr, mpsl, index, incoming, n) ==
    [returned |-> TRUE,
     array |-> [arr EXCEPT ![index] = Some(incoming)],
     max_psl |-> Max(mpsl, incoming.probe_length),
     ret |-> None, steps |-> n + 1]

\* InsertUpdate without the swap of the values: the bucket handed back still
\* holds the new value.
InsertUpdateKeepsNew(arr, mpsl, index, incoming, n) ==
    LET bucket == Unwrap(arr[index]) IN
    [returned |-> TRUE,
     array |-> [arr EXCEPT ![index] = Some([bucket EXCEPT !.value = incoming.value])],
     max_psl |-> mpsl,
     ret |-> Some(incoming),
     steps |-> n + 1]

\* The same-key arm of insert: swap the values, return the incoming bucket,
\* which now holds the old value.
InsertUpdate(arr, mpsl, index, incoming, n) ==
    LET bucket == Unwrap(arr[index]) IN
    [returned |-> TRUE,
     array |-> [arr EXCEPT ![index] = Some([bucket EXCEPT !.value = incoming.value])],
     max_psl |-> mpsl,
     ret |-> Some([incoming EXCEPT !.value = bucket.value]),
     steps |-> n + 1]

\* SwapBucket that exchanges key and value but leaves each probe_length where
\* it was.
SwapBucketKeepsPsl(arr, index, incoming) ==
    LET bucket == Unwrap(arr[index]) IN
    [array |-> [arr EXCEPT ![index] =
                    Some([incoming EXCEPT !.probe_length = bucket.probe_length])],
     incoming |-> [bucket EXCEPT !.probe_length = incoming.probe_length]]

\* SwapBucket as an assignment: the resident is overwritten, not carried on.
SwapBucketOverwrites(arr, index, incoming) ==
    [array |-> [arr EXCEPT ![index] = Some(incoming)], incoming |-> incoming]

\* The Robin Hood arm of insert: std::mem::swap(bucket, &mut incoming).
SwapBucket(arr, index, incoming) ==
    [array |-> [arr EXCEPT ![index] = Some(incoming)], incoming |-> Unwrap(arr[index])]

\* The loop of insert cannot be left in any other way than by one of its two
\* returns.  A run that has examined InsertFuel slots without returning has
\* gone more than twice round a table without a None slot and without the
\* key it carries: it never returns.
InsertFuel == 2 * capacity + 1

RECURSIVE InsertLoop(_, _, _, _, _)
InsertLoop(arr, mpsl, index, incoming, n) ==
    IF n >= InsertFuel
    THEN [returned |-> FALSE, array |-> arr, max_psl |-> mpsl, ret |-> None, steps |-> n]
    ELSE IF arr[index] = None
    THEN InsertEmpty(arr, mpsl, index, incoming, n)
    ELSE IF Unwrap(arr[index]).key = incoming.key
    THEN InsertUpdate(arr, mpsl, index, incoming, n)
    ELSE IF Unwrap(arr[index]).probe_length < incoming.probe_length
    THEN LET s == SwapBucket(arr, index, incoming) IN
         InsertLoop(s.array, mpsl, (index + 1) % capacity,
                    [s.incoming EXCEPT !.probe_length = @ + 1], n + 1)
    ELSE InsertLoop(arr, mpsl, (index + 1) % capacity,
                    [incoming EXCEPT !.probe_length = @ + 1], n + 1)

insert(arr, mpsl, key, value) ==
    InsertLoop(arr, mpsl, hash_with_fxhash(key) % capacity, Bucket(key, value, 1), 0)

RECURSIVE ContainsLoop(_, _, _, _, _)
ContainsLoop(arr, mpsl, key, index, psl) ==
    IF ~(psl <= mpsl) THEN FALSE
    ELSE IF arr[index] = None THEN FALSE
    ELSE IF Unwrap(arr[index]).key = key THEN TRUE
    ELSE IF Unwrap(arr[index]).probe_length < psl THEN FALSE
    ELSE ContainsLoop(arr, mpsl, key, (index + 1) % capacity, psl + 1)

contains(arr, mpsl, key) ==
    ContainsLoop(arr, mpsl, key, hash_with_fxhash(key) % capacity, 1)

RECURSIVE GetLoop(_, _, _, _, _)
GetLoop(arr, mpsl, key, index, psl) ==
    IF ~(psl <= mpsl) THEN None
    ELSE IF arr[index] = None THEN None
    ELSE IF Unwrap(arr[index]).key = key THEN Some(Unwrap(arr[index]).value)
    ELSE IF Unwrap(arr[index]).probe_length < psl THEN None
    ELSE GetLoop(arr, mpsl, key, (index + 1) % capacity, psl + 1)

get(arr, mpsl, key) ==
    GetLoop(arr, mpsl, key, hash_with_fxhash(key) % capacity, 1)

\* DeleteFind without the comparison of keys: the first occupied slot is taken.
DeleteFindAnyKey(arr, mpsl, key, index, psl) ==
    IF ~(psl <= mpsl) THEN None
    ELSE IF arr[index] = None THEN None
    ELSE Some(index)

\* Phase 1 of delete: the index of the key, or None.
RECURSIVE DeleteFind(_, _, _, _, _)
DeleteFind(arr, mpsl, key, index, psl) ==
    IF ~(psl <= mpsl) THEN None
    ELSE IF arr[index] = None THEN None
    ELSE IF Unwrap(arr[index]).key = key THEN Some(index)
    ELSE IF Unwrap(arr[index]).probe_length < psl THEN None
    ELSE DeleteFind(arr, mpsl, key, (index + 1) % capacity, psl + 1)

RECURSIVE BackwardShift(_, _, _)

\* BackwardShift that copies each bucket back and does not take it out of the
\* slot it came from.
BackwardShiftCopies(arr, empty_index, moved) ==
    LET next_index == (empty_index + 1) % capacity IN
    IF arr[next_index] = None THEN [array |-> arr, moved |-> moved]
    ELSE IF Unwrap(arr[next_index]).probe_length = 1 THEN [array |-> arr, moved |-> moved]
    ELSE BackwardShift(
            [arr EXCEPT ![empty_index] =
                            Some([Unwrap(arr[next_index]) EXCEPT !.probe_length = @ - 1])],
            next_index, moved + 1)

\* BackwardShift that does not stop at a bucket with probe_length 1, cut off
\* after 2 * capacity moves.
BackwardShiftPastHome(arr, empty_index, moved) ==
    LET next_index == (empty_index + 1) % capacity IN
    IF arr[next_index] = None THEN [array |-> arr, moved |-> moved]
    ELSE IF moved >= 2 * capacity THEN [array |-> arr, moved |-> moved]
    ELSE BackwardShift(
            [arr EXCEPT ![empty_index] =
                            Some([Unwrap(arr[next_index]) EXCEPT !.probe_length = @ - 1]),
                        ![next_index] = None],
            next_index, moved + 1)

\* BackwardShift that stops after the first bucket it moves.
BackwardShiftOnce(arr, empty_index, moved) ==
    LET next_index == (empty_index + 1) % capacity IN
    IF arr[next_index] = None THEN [array |-> arr, moved |-> moved]
    ELSE IF Unwrap(arr[next_index]).probe_length = 1 THEN [array |-> arr, moved |-> moved]
    ELSE [array |-> [arr EXCEPT ![empty_index] =
                            Some([Unwrap(arr[next_index]) EXCEPT !.probe_length = @ - 1]),
                        ![next_index] = None],
          moved |-> moved + 1]

\* Phase 2 of delete: the backward shift from the emptied slot.
BackwardShift(arr, empty_index, moved) ==
    LET next_index == (empty_index + 1) % capacity IN
    IF arr[next_index] = None THEN [array |-> arr, moved |-> moved]
    ELSE IF Unwrap(arr[next_index]).probe_length = 1 THEN [array |-> arr, moved |-> moved]
    ELSE BackwardShift(
            [arr EXCEPT ![empty_index] =
                            Some([Unwrap(arr[next_index]) EXCEPT !.probe_length = @ - 1]),
                        ![next_index] = None],
            next_index, moved + 1)

\* delete that empties the slot of the key and moves no bucket back.
deleteNoShift(arr, mpsl, key) ==
    LET found == DeleteFind(arr, mpsl, key, hash_with_fxhash(key) % capacity, 1) IN
    IF found = None
    THEN [array |-> arr, ret |-> None, moved |-> 0]
    ELSE LET index == Unwrap(found)
             removed == Unwrap(arr[index])
         IN [array |-> [arr EXCEPT ![index] = None], ret |-> Some(removed.value), moved |-> 0]

delete(arr, mpsl, key) ==
    LET found == DeleteFind(arr, mpsl, key, hash_with_fxhash(key) % capacity, 1) IN
    IF found = None
    THEN [array |-> arr, ret |-> None, moved |-> 0]
    ELSE LET index == Unwrap(found)
             removed == Unwrap(arr[index])
             shifted == BackwardShift([arr EXCEPT ![index] = None], index, 0)
         IN [array |-> shifted.array, ret |-> Some(removed.value), moved |-> shifted.moved]

\* ------------------------------------------------------------- actions
NoCall == [name |-> "new", key |-> 0, value |-> 0]

\* A call on a map built with capacity 0: `% self.capacity` panics.
Panic(name, k, v) ==
    /\ status' = "panicked"
    /\ call' = [name |-> name, key |-> k, value |-> v]
    /\ ret' = None
    /\ ret_value' = None
    /\ ret_bool' = FALSE
    /\ steps' = 0
    /\ pre_array' = array
    /\ pre_max_psl' = max_psl
    /\ UNCHANGED <<capacity, array, max_psl, hash>>

Insert ==
    /\ status = "ok"
    /\ \E k \in Keys, v \in Values :
         IF capacity = 0 THEN Panic("insert", k, v)
         ELSE LET r == insert(array, max_psl, k, v) IN
              /\ array' = r.array
              /\ max_psl' = r.max_psl
              /\ status' = IF r.returned THEN "ok" ELSE "hung"
              /\ call' = [name |-> "insert", key |-> k, value |-> v]
              /\ ret' = r.ret
              /\ ret_value' = None
              /\ ret_bool' = FALSE
              /\ steps' = r.steps
              /\ pre_array' = array
              /\ pre_max_psl' = max_psl
              /\ UNCHANGED <<capacity, hash>>
    /\ UNCHANGED ovars

Delete ==
    /\ status = "ok"
    /\ \E k \in Keys :
         IF capacity = 0 THEN Panic("delete", k, 0)
         ELSE LET r == delete(array, max_psl, k) IN
              /\ array' = r.array
              /\ call' = [name |-> "delete", key |-> k, value |-> 0]
              /\ ret' = None
              /\ ret_value' = r.ret
              /\ ret_bool' = FALSE
              /\ steps' = r.moved
              /\ pre_array' = array
              /\ pre_max_psl' = max_psl
              /\ UNCHANGED <<capacity, hash, max_psl, status>>
    /\ UNCHANGED ovars

Get ==
    /\ status = "ok"
    /\ \E k \in Keys :
         IF capacity = 0 THEN Panic("get", k, 0)
         ELSE /\ call' = [name |-> "get", key |-> k, value |-> 0]
              /\ ret' = None
              /\ ret_value' = get(array, max_psl, k)
              /\ ret_bool' = FALSE
              /\ steps' = 0
              /\ pre_array' = array
              /\ pre_max_psl' = max_psl
              /\ UNCHANGED <<capacity, hash, array, max_psl, status>>
    /\ UNCHANGED ovars

Contains ==
    /\ status = "ok"
    /\ \E k \in Keys :
         IF capacity = 0 THEN Panic("contains", k, 0)
         ELSE /\ call' = [name |-> "contains", key |-> k, value |-> 0]
              /\ ret' = None
              /\ ret_value' = None
              /\ ret_bool' = contains(array, max_psl, k)
              /\ steps' = 0
              /\ pre_array' = array
              /\ pre_max_psl' = max_psl
              /\ UNCHANGED <<capacity, hash, array, max_psl, status>>
    /\ UNCHANGED ovars

\* =========================================================== OpenHashMap
Empty == [tag |-> "Empty", key |-> 0, value |-> 0]
Deleted == [tag |-> "Deleted", key |-> 0, value |-> 0]
SlotSome(k, v) == [tag |-> "Some", key |-> k, value |-> v]

\* OpenHashMap::new : capacity slots, all Slot::Empty.
ONew(c) == [array |-> [i \in 0..(c - 1) |-> Empty], capacity |-> c]

\* OpenHashMap::hash(k, modulus)
OpenHash(k, modulus) == ohash[k] % modulus

\* Vacant without the tombstones.
VacantEmptyOnly(slot) == slot.tag = "Empty"

\* The slots insert takes for a new entry: Slot::Empty | Slot::Deleted.
Vacant(slot) == slot.tag \in {"Empty", "Deleted"}

RECURSIVE OInsertLoop(_, _, _, _)
OInsertLoop(index, start_index, key, value) ==
    IF Vacant(oarray[index])
    THEN [array |-> [oarray EXCEPT ![index] = SlotSome(key, value)], ret |-> TRUE]
    ELSE IF oarray[index].key = key
    THEN [array |-> [oarray EXCEPT ![index] = SlotSome(key, value)], ret |-> TRUE]
    ELSE LET next == (index + 1) % ocapacity IN
         IF next = start_index
         THEN [array |-> oarray, ret |-> FALSE]
         ELSE OInsertLoop(next, start_index, key, value)

oinsert(key, value) ==
    LET index == OpenHash(key, ocapacity) IN OInsertLoop(index, index, key, value)

odelete(key) ==
    LET index == OpenHash(key, ocapacity) IN
    [array |-> [oarray EXCEPT ![index] = Deleted], ret |-> oarray[index]]

\* The loop of find reads an array it does not change: once it has examined
\* every slot without returning it is back at its first index in the state it
\* started in, and it never returns.
RECURSIVE OFindLoop(_, _, _)
OFindLoop(key, index, n) ==
    IF n >= ocapacity THEN [returned |-> FALSE, ret |-> Empty]
    ELSE IF oarray[index].tag = "Some"
    THEN IF oarray[index].key = key
         THEN [returned |-> TRUE, ret |-> oarray[index]]
         ELSE OFindLoop(key, (index + 1) % ocapacity, n + 1)
    ELSE IF oarray[index].tag = "Empty"
    THEN [returned |-> TRUE, ret |-> Empty]
    ELSE OFindLoop(key, (index + 1) % ocapacity, n + 1)

\* ofind that starts at slot 0 instead of the home index of the key.
ofindFromZero(key) == OFindLoop(key, 0, 0)

ofind(key) == OFindLoop(key, OpenHash(key, ocapacity), 0)

\* A call on a map built with capacity 0: `result % modulus` panics.
OPanic(name, k, v) ==
    /\ ostatus' = "panicked"
    /\ ocall' = [name |-> name, key |-> k, value |-> v]
    /\ oret' = FALSE
    /\ oret_slot' = Empty
    /\ pre_oarray' = oarray
    /\ UNCHANGED <<ocapacity, oarray, ohash>>

OInsert ==
    /\ ostatus = "ok"
    /\ \E k \in Keys, v \in Values :
         IF ocapacity = 0 THEN OPanic("insert", k, v)
         ELSE LET r == oinsert(k, v) IN
              /\ oarray' = r.array
              /\ ocall' = [name |-> "insert", key |-> k, value |-> v]
              /\ oret' = r.ret
              /\ oret_slot' = Empty
              /\ pre_oarray' = oarray
              /\ UNCHANGED <<ocapacity, ohash, ostatus>>
    /\ UNCHANGED rvars

ODelete ==
    /\ ostatus = "ok"
    /\ \E k \in Keys :
         IF ocapacity = 0 THEN OPanic("delete", k, 0)
         ELSE LET r == odelete(k) IN
              /\ oarray' = r.array
              /\ ocall' = [name |-> "delete", key |-> k, value |-> 0]
              /\ oret' = FALSE
              /\ oret_slot' = r.ret
              /\ pre_oarray' = oarray
              /\ UNCHANGED <<ocapacity, ohash, ostatus>>
    /\ UNCHANGED rvars

OFind ==
    /\ ostatus = "ok"
    /\ \E k \in Keys :
         IF ocapacity = 0 THEN OPanic("find", k, 0)
         ELSE LET r == ofind(k) IN
              /\ ostatus' = IF r.returned THEN "ok" ELSE "hung"
              /\ ocall' = [name |-> "find", key |-> k, value |-> 0]
              /\ oret' = FALSE
              /\ oret_slot' = r.ret
              /\ pre_oarray' = oarray
              /\ UNCHANGED <<ocapacity, ohash, oarray>>
    /\ UNCHANGED rvars

\* ------------------------------------------------------ specifications
\* Spec runs a RobinHashMap, SpecOpen an OpenHashMap; the map that is not run
\* stays idle.
RIdle ==
    /\ capacity = 0
    /\ array = << >>
    /\ max_psl = 0
    /\ hash = << >>
    /\ status = "idle"
    /\ call = NoCall
    /\ ret = None
    /\ ret_value = None
    /\ ret_bool = FALSE
    /\ steps = 0
    /\ pre_array = << >>
    /\ pre_max_psl = 0
    /\ deleted = {}

OIdle ==
    /\ ocapacity = 0
    /\ oarray = << >>
    /\ ohash = << >>
    /\ ostatus = "idle"
    /\ ocall = NoCall
    /\ oret = FALSE
    /\ oret_slot = Empty
    /\ pre_oarray = << >>

Init ==
    /\ capacity \in Capacities
    /\ array = New(capacity).array
    /\ max_psl = New(capacity).max_psl
    /\ hash \in HashFunctions(capacity)
    /\ status = "ok"
    /\ call = NoCall
    /\ ret = None
    /\ ret_value = None
    /\ ret_bool = FALSE
    /\ steps = 0
    /\ pre_array = array
    /\ pre_max_psl = max_psl
    /\ deleted = {}
    /\ OIdle

\* The record of deleted keys is kept by SpecDeleted alone.
Next ==
    \/ Insert /\ UNCHANGED deleted
    \/ Delete /\ UNCHANGED deleted
    \/ Get /\ UNCHANGED deleted
    \/ Contains /\ UNCHANGED deleted

Spec == Init /\ [][Next]_vars

InitOpen ==
    /\ ocapacity \in OpenCapacities
    /\ oarray = ONew(ocapacity).array
    /\ ohash \in HashFunctions(ocapacity)
    /\ ostatus = "ok"
    /\ ocall = NoCall
    /\ oret = FALSE
    /\ oret_slot = Empty
    /\ pre_oarray = oarray
    /\ RIdle

NextOpen == OInsert \/ ODelete \/ OFind

SpecOpen == InitOpen /\ [][NextOpen]_vars

\* Inserts of pairwise distinct keys, at most `capacity` of them, on a new map.
InsertDistinct ==
    /\ Insert
    /\ ~\E i \in DOMAIN array : array[i] /= None /\ Unwrap(array[i]).key = call'.key
    /\ Cardinality({i \in DOMAIN array : array[i] /= None}) < capacity

NextDistinct ==
    \/ InsertDistinct /\ UNCHANGED deleted
    \/ Get /\ UNCHANGED deleted
    \/ Contains /\ UNCHANGED deleted

SpecDistinct == Init /\ [][NextDistinct]_vars

\* The calls of Spec, with the record of the keys a delete has returned for:
\* a delete(k) that returns adds k, a call of insert(k, _) takes k out.
Track ==
    deleted' =
        IF call'.name = "insert" THEN deleted \ {call'.key}
        ELSE IF call'.name = "delete" /\ status' = "ok" THEN deleted \cup {call'.key}
        ELSE deleted

NextDeleted ==
    \/ Insert /\ Track
    \/ Delete /\ Track
    \/ Get /\ Track
    \/ Contains /\ Track

SpecDeleted == Init /\ [][NextDeleted]_vars

\* ============================================================== claims
Occupied(arr) == {i \in DOMAIN arr : arr[i] /= None}
Stored(arr, k) == \E i \in Occupied(arr) : Unwrap(arr[i]).key = k
Pairs(arr) == {<<Unwrap(arr[i]).key, Unwrap(arr[i]).value>> : i \in Occupied(arr)}
ValuesOf(arr, k) == {Unwrap(arr[i]).value : i \in {j \in Occupied(arr) : Unwrap(arr[j]).key = k}}
SlotOf(arr, k) == CHOOSE i \in Occupied(arr) : Unwrap(arr[i]).key = k
Home(k) == hash_with_fxhash(k) % capacity

InsertReturned == call.name = "insert" /\ status = "ok"
DeleteReturned == call.name = "delete" /\ status = "ok"

\* C1 (round trip): after inserts of pairwise distinct keys, at most capacity
\* of them, on a new map, get(k) returns Some(v) for every inserted pair
\* (k, v).  The pairs inserted before the last insert are the pairs of
\* pre_array; the last insert adds (call.key, call.value).
C1_RoundTrip ==
    InsertReturned =>
        \A kv \in Pairs(pre_array) \cup {<<call.key, call.value>>} :
            get(array, max_psl, kv[1]) = Some(kv[2])

\* C2 (update): insert(k, v2) of a key stored with value v1 returns the
\* previous value v1, a following get(k) returns Some(v2), and the number of
\* occupied slots is unchanged.
C2_Update ==
    (InsertReturned /\ Stored(pre_array, call.key)) =>
        /\ ret /= None
        /\ ValuesOf(pre_array, call.key) = {Unwrap(ret).value}
        /\ get(array, max_psl, call.key) = Some(call.value)
        /\ Cardinality(Occupied(array)) = Cardinality(Occupied(pre_array))

\* C3 (delete removes and preserves others): after delete(k), contains(k) is
\* false and get(k') returns for every other stored key k' what it returned
\* immediately before the delete.
C3_DeletePreservesOthers ==
    DeleteReturned =>
        /\ ~contains(array, max_psl, call.key)
        /\ \A k \in Keys \ {call.key} :
              Stored(pre_array, k) =>
                  get(array, max_psl, k) = get(pre_array, pre_max_psl, k)

\* C4 (return value of insert): an insert(k, v) that returns, returns None
\* iff k was stored in no slot before the call, and otherwise Some(b) with
\* b.key = k and b.value the value stored for k before the call.
C4_InsertReturnValue ==
    InsertReturned =>
        /\ (ret = None) <=> ~Stored(pre_array, call.key)
        /\ ret /= None =>
              /\ Unwrap(ret).key = call.key
              /\ ValuesOf(pre_array, call.key) = {Unwrap(ret).value}

\* An update found beyond the home index of its key, with another old value.
C4_Witness ==
    /\ InsertReturned
    /\ ret /= None
    /\ Unwrap(ret).value /= call.value
    /\ steps >= 2

\* C5 (no entry lost on displacement): insert(k, v) of a key stored in no
\* slot, into a map with an empty slot, leaves the stored pairs equal to the
\* previous pairs plus (k, v).
C5_NoEntryLost ==
    (/\ InsertReturned
     /\ ~Stored(pre_array, call.key)
     /\ Occupied(pre_array) /= DOMAIN pre_array) =>
        /\ Pairs(array) = Pairs(pre_array) \cup {<<call.key, call.value>>}
        /\ Cardinality(Occupied(array)) = Cardinality(Occupied(pre_array)) + 1

\* A fresh insert that evicted a resident: a key stored before the call is
\* stored in another slot after it.
C5_Witness ==
    /\ InsertReturned
    /\ ~Stored(pre_array, call.key)
    /\ \E k \in Keys :
          /\ Stored(pre_array, k)
          /\ Stored(array, k)
          /\ SlotOf(pre_array, k) /= SlotOf(array, k)

\* C6 (full table): with capacity distinct keys stored, insert of one more
\* distinct key returns to the caller with a TableFull condition and leaves
\* the stored pairs unchanged.
C6_FullTableReported ==
    (/\ call.name = "insert"
     /\ capacity > 0
     /\ Occupied(pre_array) = DOMAIN pre_array
     /\ ~Stored(pre_array, call.key)) =>
        /\ status = "table_full"
        /\ Pairs(array) = Pairs(pre_array)

\* C7 (zero capacity): new(0) fails with an InvalidCapacity condition; no map
\* of capacity 0 is returned, and no call computes an index modulo 0.
C7_ZeroCapacityRejected ==
    /\ capacity = 0 => status = "invalid_capacity"
    /\ status /= "panicked"

\* C8 (delete of an absent key): a delete(k) of a key stored in no slot
\* returns None and leaves every slot and max_psl unchanged.
C8_DeleteAbsent ==
    (DeleteReturned /\ ~Stored(pre_array, call.key)) =>
        /\ ret_value = None
        /\ array = pre_array
        /\ max_psl = pre_max_psl

\* A delete of an absent key that walked past occupied slots of a map that
\* holds other keys.
C8_Witness ==
    /\ DeleteReturned
    /\ ~Stored(pre_array, call.key)
    /\ pre_array[Home(call.key)] /= None
    /\ max_psl >= 2

\* ---------------------------------------------------------- OpenHashMap
OInsertReturned == ocall.name = "insert" /\ ostatus = "ok"
ODeleteReturned == ocall.name = "delete" /\ ostatus = "ok"

AllSomeOther(arr, k) == \A i \in DOMAIN arr : arr[i].tag = "Some" /\ arr[i].key /= k

\* C9 (OpenHashMap full-table insert): insert(k, v) returns false iff every
\* slot is Slot::Some holding a key different from k, and then the array is
\* unchanged; in every other state it returns true.
C9_OpenInsertFull ==
    OInsertReturned =>
        /\ ~oret <=> AllSomeOther(pre_oarray, ocall.key)
        /\ ~oret => oarray = pre_oarray

\* An insert refused by a full map, and (separately reachable) accepted by a
\* map whose only free slot is a tombstone.
C9_Witness ==
    /\ OInsertReturned
    /\ ~oret
    /\ ocapacity >= 2

\* C10 (OpenHashMap find after delete): after delete(k), find(k) does not
\* return Slot::Some.
C10_OpenFindAfterDelete ==
    ODeleteReturned =>
        LET r == ofind(ocall.key) IN ~(r.returned /\ r.ret.tag = "Some")

\* C11 (OpenHashMap insert then find): whenever insert(k, v) returns true, in
\* any state reached by inserts and deletes, tombstones included, a find(k)
\* made next returns, and returns Slot::Some((k, v)), also when k was stored
\* with another value before.
C11_OpenInsertThenFind ==
    (OInsertReturned /\ oret) =>
        LET r == ofind(ocall.key) IN
        /\ r.returned
        /\ r.ret = SlotSome(ocall.key, ocall.value)

\* An accepted insert of a key stored with another value, beyond its home
\* index, in an array that holds a tombstone.
C11_Witness ==
    /\ OInsertReturned
    /\ oret
    /\ \E i \in DOMAIN pre_oarray :
          /\ pre_oarray[i].tag = "Some"
          /\ pre_oarray[i].key = ocall.key
          /\ pre_oarray[i].value /= ocall.value
          /\ i /= OpenHash(ocall.key, ocapacity)
    /\ \E i \in DOMAIN pre_oarray : pre_oarray[i] = Deleted

\* -------------------------------------------- invariants of RobinHashMap
\* The states between operations: the map is built and no call is running.
BetweenOperations == status = "ok" /\ capacity > 0

\* The probe length of a key stored at index i, from its home index.
Distance(k, i) == ((i + capacity - Home(k)) % capacity) + 1

\* C12 (PSL invariant I1): between operations, every occupied slot at index i
\* holding key k has probe_length = ((i - home(k)) mod capacity) + 1.
C12_PslInvariant ==
    BetweenOperations =>
        \A i \in Occupied(array) :
            Unwrap(array[i]).probe_length = Distance(Unwrap(array[i]).key, i)

\* A delete has moved a bucket back, and a bucket is stored past the end of
\* the array, at an index below the home index of its key.
C12_Witness ==
    /\ DeleteReturned
    /\ steps >= 1
    /\ \E i \in Occupied(array) : i < Home(Unwrap(array[i]).key)

\* C13 (max_psl is a safe upper bound): between operations, max_psl is at
\* least the probe_length of every occupied slot, the buckets placed by the
\* Robin Hood swap inside insert included.
C13_MaxPslBound ==
    BetweenOperations =>
        \A i \in Occupied(array) : Unwrap(array[i]).probe_length <= max_psl

\* The cyclic predecessor of index i.
Pred(i) == (i + capacity - 1) % capacity

\* C14 (Robin Hood ordering I3, no gaps): between operations, every occupied
\* slot with probe_length p > 1 has its cyclic predecessor occupied with
\* probe_length >= p - 1; and on the walk from the home index of its key to
\* the slot, no slot is empty and the resident at probe distance j has
\* probe_length >= j.
C14_RobinHoodOrdering ==
    BetweenOperations =>
        \A i \in Occupied(array) :
            Unwrap(array[i]).probe_length > 1 =>
                /\ array[Pred(i)] /= None
                /\ Unwrap(array[Pred(i)]).probe_length >= Unwrap(array[i]).probe_length - 1
                /\ \A j \in 1..(Unwrap(array[i]).probe_length - 1) :
                      LET w == (Home(Unwrap(array[i]).key) + j - 1) % capacity IN
                      /\ array[w] /= None
                      /\ Unwrap(array[w]).probe_length >= j

\* A delete has shifted a bucket back and left a bucket that is still two
\* slots or more from its home index, in an array with an empty slot.
C14_Witness ==
    /\ DeleteReturned
    /\ steps >= 1
    /\ Occupied(array) /= DOMAIN array
    /\ \E i \in Occupied(array) : Unwrap(array[i]).probe_length >= 3

\* ------------------------------------------------------- termination
\* C15 (insert terminates on a non-full table): an insert(k, v) made in a
\* state with at least one empty slot returns after examining at most
\* `capacity` slots, that is after at most capacity - 1 index advances,
\* whatever swaps happen on the way.
C15_InsertTerminates ==
    (/\ call.name = "insert"
     /\ capacity > 0
     /\ Occupied(pre_array) /= DOMAIN pre_array) =>
        /\ status = "ok"
        /\ steps <= capacity

\* An insert that examined every slot of the array and swapped on the way:
\* a key stored before the call has moved.
C15_Witness ==
    /\ InsertReturned
    /\ capacity >= 3
    /\ steps = capacity
    /\ \E k \in Keys :
          /\ Stored(pre_array, k)
          /\ Stored(array, k)
          /\ SlotOf(pre_array, k) /= SlotOf(array, k)
          /\ k /= call.key

\* ------------------------------------------------- effect of delete
\* A delete that found its key.
DeleteFound == DeleteReturned /\ ret_value /= None

\* The slot at cyclic offset d from index i.
At(i, d) == (i + d) % capacity

\* The slots at which the backward shift stops: empty, or probe_length 1.
ShiftStops(arr, s) == arr[s] = None \/ Unwrap(arr[s]).probe_length = 1

\* The number of buckets in the run after slot i: the offset of the last slot
\* before the first slot after i that is empty or holds probe_length 1.  The
\* walk round the array ends at slot i itself, which the delete has emptied.
RunLength(arr, i) ==
    CHOOSE m \in 0..(capacity - 1) :
        /\ m = capacity - 1 \/ ShiftStops(arr, At(i, m + 1))
        /\ \A d \in 1..m : ~ShiftStops(arr, At(i, d))

\* C16 (effect of backward-shift deletion): delete(k) of a key found at slot
\* i, with j the last slot of the run after i: each bucket in slots i+1..j
\* ends one slot earlier with the same key and value and probe_length reduced
\* by 1, slot j ends empty, and every slot outside i..j and max_psl are
\* unchanged.
C16_DeleteEffect ==
    DeleteFound =>
        LET i == SlotOf(pre_array, call.key)
            m == RunLength(pre_array, i)
        IN /\ \A d \in 1..m :
                 array[At(i, d - 1)] =
                     Some([Unwrap(pre_array[At(i, d)]) EXCEPT !.probe_length = @ - 1])
           /\ array[At(i, m)] = None
           /\ \A s \in DOMAIN array :
                 s \notin {At(i, d) : d \in 0..m} => array[s] = pre_array[s]
           /\ max_psl = pre_max_psl

\* A delete that moved two buckets or more across the end of the array and
\* left an occupied slot outside the run untouched.
C16_Witness ==
    /\ DeleteFound
    /\ steps >= 2
    /\ LET i == SlotOf(pre_array, call.key) IN
       /\ At(i, steps) < i
       /\ \E s \in Occupied(array) : s \notin {At(i, d) : d \in 0..steps}

\* ------------------------------------------------------ deleted keys
\* C17 (a deleted key stays deleted): once delete(k) has returned, with Some
\* or None, contains(k) is false, and it stays false after every later insert
\* and delete on other keys, until insert(k, _) is called.
C17_DeletedStaysDeleted ==
    BetweenOperations => \A k \in deleted : ~contains(array, max_psl, k)

\* C18 (key uniqueness): between operations, no key is stored in more than
\* one slot of the array.
C18_KeyUniqueness ==
    BetweenOperations =>
        \A i, j \in Occupied(array) :
            Unwrap(array[i]).key = Unwrap(array[j]).key => i = j

\* An update of a stored key found beyond its home index, in a full array
\* whose keys are all different.
C18_Witness ==
    /\ InsertReturned
    /\ capacity >= 3
    /\ Occupied(array) = DOMAIN array
    /\ ret /= None
    /\ steps >= 2
    /\ Cardinality({Unwrap(array[i]).key : i \in Occupied(array)}) = capacity

\* C19 (delete terminates): every delete returns, also when the key is found
\* in a completely full array: the backward shift meets an empty slot or a
\* bucket with probe_length 1 and stops after moving at most capacity - 1
\* buckets.
C19_DeleteTerminates ==
    (call.name = "delete" /\ capacity > 0) =>
        /\ status = "ok"
        /\ steps <= capacity - 1

\* A delete that found its key in a completely full array and moved every
\* other bucket.
C19_Witness ==
    /\ DeleteFound
    /\ capacity >= 3
    /\ Occupied(pre_array) = DOMAIN pre_array
    /\ steps = capacity - 1

=============================================================================
